---------------------------- MODULE Spec2Model ----------------------------
(***************************************************************************)
(* A model of pandas/core/arrays/numeric.py: NumericArray._arith_method,   *)
(* the unary operators, NumericArray.astype and NumericDtype.__from_arrow__.*)
(*                                                                         *)
(* A number is a pair <<n, d>>: the rational n/d for d > 0, and a special  *)
(* floating value for d = 0 (<<0,0>> NaN, <<1,0>> +inf, <<-1,0>> -inf,     *)
(* <<2,0>> NaT).  A buffer is a sequence; heap maps a buffer's name to its *)
(* contents, so that two arrays sharing a buffer is a fact of the state.   *)
(***************************************************************************)
EXTENDS Integers, Sequences, FiniteSets, TLC

VARIABLES
    heap,      \* buffer name -> contents (numpy buffers)
    self,      \* the NumericArray the method is called on: [data, mask, kind]
    other,     \* the other operand of the last binary call
    op_name,   \* op.__name__ of the last call ("" before any call)
    ret,       \* what the last call returned or raised
    snap,      \* contents of the operands' buffers when the call was made
    arrow,     \* the pyarrow input of __from_arrow__
    pc         \* "idle", "called", "mutated"

vars == <<heap, self, other, op_name, ret, snap, arrow, pc>>

\* Longest array (and chunk) the model draws.
MaxLen == 2
\* Most chunks of a pyarrow.ChunkedArray.
MaxChunks == 2

---------------------------------------------------------------------------
\* Numbers

Num(n) == <<n, 1>>
Zero == Num(0)
One == Num(1)
NaN == <<0, 0>>
PosInf == <<1, 0>>
NegInf == <<-1, 0>>
NaT == <<2, 0>>

\* The values a data slot is drawn from: 0 and 1, which the pow and rpow
\* rules single out, and 2 for every other value.
DataVals == {Zero, One, Num(2)}

RECURSIVE Gcd(_, _)
Gcd(a, b) == IF b = 0 THEN a ELSE Gcd(b, a % b)

\* a / b for b > 0, in lowest terms
Frac(a, b) ==
    LET g == Gcd(IF a < 0 THEN -a ELSE a, b)
    IN  <<a \div g, b \div g>>

RECURSIVE IntPow(_, _)
IntPow(x, y) == IF y = 0 THEN 1 ELSE x * IntPow(x, y - 1)

\* numpy's elementwise operators on two integral values x and y (every
\* operand the model draws is integral and non-negative); fl: the operation
\* is carried out in floating point.  Floating-point errors are ignored
\* (np.errstate(all="ignore")): an integer division by zero gives 0, a
\* floating one inf or nan.
NpAdd(x, y) == Num(x + y)
NpSub(x, y) == Num(x - y)
NpMul(x, y) == Num(x * y)
NpTrueDiv(x, y) ==
    IF y # 0 THEN Frac(x, y)
    ELSE IF x = 0 THEN NaN ELSE IF x > 0 THEN PosInf ELSE NegInf
NpFloorDiv(x, y, fl) ==
    IF y # 0 THEN Num(x \div y)
    ELSE IF ~fl THEN Zero
    ELSE IF x = 0 THEN NaN ELSE IF x > 0 THEN PosInf ELSE NegInf
NpMod(x, y, fl) ==
    IF y # 0 THEN Num(x % y)
    ELSE IF ~fl THEN Zero ELSE NaN
NpPow(x, y) == Num(IntPow(x, y))

---------------------------------------------------------------------------
\* Operands

OpNames ==
    {"add", "sub", "mul", "truediv", "floordiv", "mod", "pow", "divmod",
     "radd", "rsub", "rmul", "rtruediv", "rfloordiv", "rmod", "rpow",
     "rdivmod"}

\* "truediv" in op_name
ContainsTruediv(op) == op \in {"truediv", "rtruediv"}

SeqsOf(S, n) == [1..n -> S]
SeqsUpTo(S, n) == UNION {SeqsOf(S, k) : k \in 0..n}

AllTrue(n) == [i \in 1..n |-> TRUE]
Ones(n) == [i \in 1..n |-> One]

\* The other operand, by what _arith_method tells apart:
\*   "masked"  a NumericArray (data, mask, kind "i" or "f")
\*   "native"  a list-like (data; kind "i", "f" or "O" for a non-numeric
\*             dtype; ndim 1 or 2)
\*   "scalar"  a 0-d value data[1] (kind "i", "f", or "O" for anything that
\*             is neither a float nor an integer nor NA)
\*   "NA"      libmissing.NA
\* A datetime.timedelta operand (lines 194-195) is not drawn: what op gives
\* for it is Timedelta's arithmetic, and it contributes no mask.
Operand(tag, kind, ndim, data, mask) ==
    [tag |-> tag, kind |-> kind, ndim |-> ndim, data |-> data, mask |-> mask]

MaskedOperands ==
    UNION {{Operand("masked", k, 1, d, m) :
                d \in SeqsOf(DataVals, n), m \in SeqsOf(BOOLEAN, n)} :
           n \in 0..MaxLen, k \in {"i", "f"}}
NativeOperands ==
    {Operand("native", k, 1, d, <<>>) :
        d \in SeqsUpTo(DataVals, MaxLen), k \in {"i", "f"}}
    \cup {Operand("native", "O", 1, [i \in 1..n |-> Zero], <<>>) : n \in 0..MaxLen}
    \cup {Operand("native", "i", 2, <<>>, <<>>)}
ScalarOperands ==
    {Operand("scalar", k, 0, <<v>>, <<>>) : v \in DataVals, k \in {"i", "f"}}
    \cup {Operand("scalar", "O", 0, <<Zero>>, <<>>)}
NAOperand == Operand("NA", "O", 0, <<>>, <<>>)
Operands == MaskedOperands \cup NativeOperands \cup ScalarOperands \cup {NAOperand}

\* numpy broadcasting of two 1-d shapes (a 0-d operand counts as length 1);
\* -1 when the shapes cannot be broadcast together (numpy raises ValueError)
BLen(m, n) ==
    IF m = n THEN m ELSE IF m = 1 THEN n ELSE IF n = 1 THEN m ELSE -1
At(s, i) == IF Len(s) = 1 THEN s[1] ELSE s[i]

\* mutant of NpOr: the other operand's mask is dropped
NpOrSelfOnly(a, b) == [i \in 1..BLen(Len(a), Len(b)) |-> At(a, i)]
\* a | b
NpOr(a, b) == [i \in 1..BLen(Len(a), Len(b)) |-> At(a, i) \/ At(b, i)]
\* np.where(cond, False, mask)
NpWhereFalse(cond, mask) ==
    [i \in 1..BLen(Len(cond), Len(mask)) |-> IF At(cond, i) THEN FALSE ELSE At(mask, i)]
\* (data == v) & ~mask
EqAndPresent(data, v, mask) ==
    [i \in 1..BLen(Len(data), Len(mask)) |-> At(data, i) = v /\ ~At(mask, i)]
\* data == v
EqVal(data, v) == [i \in 1..Len(data) |-> data[i] = v]

---------------------------------------------------------------------------
\* NumericArray._arith_method

\* op(x, y) for one pair of slots; the reversed operators swap their
\* arguments (roperator).  divmod and rdivmod give the pair
\* <<quotient, remainder>>.
ElemOp(op, x, y, fl) ==
    CASE op = "add"       -> NpAdd(x, y)
      [] op = "radd"      -> NpAdd(y, x)
      [] op = "sub"       -> NpSub(x, y)
      [] op = "rsub"      -> NpSub(y, x)
      [] op = "mul"       -> NpMul(x, y)
      [] op = "rmul"      -> NpMul(y, x)
      [] op = "truediv"   -> NpTrueDiv(x, y)
      [] op = "rtruediv"  -> NpTrueDiv(y, x)
      [] op = "floordiv"  -> NpFloorDiv(x, y, fl)
      [] op = "rfloordiv" -> NpFloorDiv(y, x, fl)
      [] op = "mod"       -> NpMod(x, y, fl)
      [] op = "rmod"      -> NpMod(y, x, fl)
      [] op = "pow"       -> NpPow(x, y)
      [] op = "rpow"      -> NpPow(y, x)
      [] op = "divmod"    -> <<NpFloorDiv(x, y, fl), NpMod(x, y, fl)>>
      [] op = "rdivmod"   -> <<NpFloorDiv(y, x, fl), NpMod(y, x, fl)>>

\* the element kind numpy gives op(self._data, other)
OpKind(op, skind, okind) ==
    IF ContainsTruediv(op) \/ skind = "f" \/ okind = "f" THEN "f" ELSE "i"

\* op(self._data, other), elementwise with broadcasting
NpOp(op, sdata, skind, odata, okind) ==
    [i \in 1..BLen(Len(sdata), Len(odata)) |->
        ElemOp(op, At(sdata, i)[1], At(odata, i)[1], skind = "f" \/ okind = "f")]

Array(data, mask, kind) == [data |-> data, mask |-> mask, kind |-> kind]

\* self._maybe_mask_result(result, mask, other, op_name): the array of the
\* result's element kind over the buffers it is given (copy=False)
MaybeMaskResult(result, kind, mask) == Array(result, mask, kind)

Returned(arrays, evaluated) ==
    [status |-> "ok", arrays |-> arrays, evaluated |-> evaluated]
Raised(err, evaluated) ==
    [status |-> err, arrays |-> <<>>, evaluated |-> evaluated]

\* lines 179-199: the operand checks; "" when the operand passes
OperandError(n, o) ==
    IF o.ndim > 1 THEN "NotImplementedError"
    ELSE IF o.tag = "masked" THEN ""
    ELSE IF o.tag = "native" THEN
        IF n # Len(o.data) THEN "ValueError"
        ELSE IF o.kind \notin {"i", "f"} THEN "TypeError"
        ELSE ""
    ELSE IF o.tag = "NA" \/ o.kind \in {"i", "f"} THEN ""
    ELSE "TypeError"

\* mutant of BaseMask: NA does not force the mask
BaseMaskNotForced(smask, o) ==
    IF o.tag # "masked" THEN smask ELSE NpOr(smask, o.mask)
\* lines 201-206: the combined mask before the pow and rpow rules
BaseMask(smask, o) ==
    IF o.tag # "masked"
    THEN IF o.tag = "NA" THEN AllTrue(Len(smask)) ELSE smask
    ELSE NpOr(smask, o.mask)

\* mutant of PowMask: the base's own missingness is not looked at
PowMaskAnyOne(sdata, smask, o, mask) ==
    LET m1 == NpWhereFalse(EqVal(sdata, One), mask)
    IN  IF o.tag = "masked"
        THEN NpWhereFalse(EqAndPresent(o.data, Zero, o.mask), m1)
        ELSE IF o.tag # "NA"
        THEN NpWhereFalse(EqVal(o.data, Zero), m1)
        ELSE m1
\* lines 208-215
PowMask(sdata, smask, o, mask) ==
    LET m1 == NpWhereFalse(EqAndPresent(sdata, One, smask), mask)
    IN  IF o.tag = "masked"
        THEN NpWhereFalse(EqAndPresent(o.data, Zero, o.mask), m1)
        ELSE IF o.tag # "NA"
        THEN NpWhereFalse(EqVal(o.data, Zero), m1)
        ELSE m1

\* mutant of RpowMask: pow's rules, not reversed
RpowMaskNotReversed(sdata, smask, o, mask) ==
    LET m1 == NpWhereFalse(EqAndPresent(sdata, One, smask), mask)
    IN  IF o.tag = "masked"
        THEN NpWhereFalse(EqAndPresent(o.data, Zero, o.mask), m1)
        ELSE IF o.tag # "NA"
        THEN NpWhereFalse(EqVal(o.data, Zero), m1)
        ELSE m1
\* lines 217-224
RpowMask(sdata, smask, o, mask) ==
    LET m1 == IF o.tag = "masked"
              THEN NpWhereFalse(EqAndPresent(o.data, One, o.mask), mask)
              ELSE IF o.tag # "NA"
              THEN NpWhereFalse(EqVal(o.data, One), mask)
              ELSE mask
    IN  NpWhereFalse(EqAndPresent(sdata, Zero, smask), m1)

\* lines 201-224
ResultMask(op, sdata, smask, o) ==
    LET mask == BaseMask(smask, o)
    IN  IF op = "pow" THEN PowMask(sdata, smask, o, mask)
        ELSE IF op = "rpow" THEN RpowMask(sdata, smask, o, mask)
        ELSE mask

\* mutant of PlaceholderKind: no promotion for true division
PlaceholderKindOfSelf(op, skind) == skind
\* lines 227-232: the kind of the placeholder np.ones_like(self._data)
PlaceholderKind(op, skind) ==
    IF ContainsTruediv(op) /\ skind # "f" THEN "f" ELSE skind

\* mutant of DivmodResult: quotient and remainder in the wrong order
DivmodResultSwapped(result, kind, mask) ==
    <<MaybeMaskResult([i \in 1..Len(result) |-> result[i][2]], kind, mask),
      MaybeMaskResult([i \in 1..Len(result) |-> result[i][1]], kind, mask)>>
\* lines 238-243
DivmodResult(result, kind, mask) ==
    <<MaybeMaskResult([i \in 1..Len(result) |-> result[i][1]], kind, mask),
      MaybeMaskResult([i \in 1..Len(result) |-> result[i][2]], kind, mask)>>

\* _arith_method(self, other, op) on the arrays' contents.  A masked operand
\* whose shape cannot be broadcast against self's makes
\* self._mask | omask raise ValueError (line 206).
ArithMethod(sdata, smask, skind, o, op) ==
    LET err == OperandError(Len(sdata), o)
    IN  IF err # "" THEN Raised(err, FALSE)
        ELSE IF o.tag = "masked" /\ BLen(Len(smask), Len(o.mask)) = -1
        THEN Raised("ValueError", FALSE)
        ELSE
        LET mask == ResultMask(op, sdata, smask, o)
        IN  IF o.tag = "NA"
            THEN \* the placeholder; div, mod = result unpacks it for divmod
                 IF op = "divmod"
                 THEN Raised(IF Len(sdata) = 2 THEN "TypeError" ELSE "ValueError", FALSE)
                 ELSE Returned(<<MaybeMaskResult(Ones(Len(sdata)),
                                                 PlaceholderKind(op, skind), mask)>>,
                               FALSE)
            ELSE
            LET result == NpOp(op, sdata, skind, o.data, o.kind)
                kind == OpKind(op, skind, o.kind)
            IN  IF op = "divmod" THEN Returned(DivmodResult(result, kind, mask), TRUE)
                ELSE IF op = "rdivmod"
                THEN \* the tuple reaches _maybe_mask_result, which takes arrays
                     Raised("TypeError", TRUE)
                ELSE Returned(<<MaybeMaskResult(result, kind, mask)>>, TRUE)

---------------------------------------------------------------------------
\* The state machine: one NumericArray, and calls on it

Refs ==
    {"self.data", "self.mask", "other.data", "other.mask",
     "ret1.data", "ret1.mask", "ret2.data", "none"}

NoOperand == Operand("none", "O", 0, <<>>, <<>>)
NoRet == [status |-> "none", arrays |-> <<>>, evaluated |-> FALSE]
NoArrow == [type |-> "", chunked |-> FALSE, chunks |-> <<>>]
NoSnap == [odata |-> <<>>, omask |-> <<>>]

SelfData == heap["self.data"]
SelfMask == heap["self.mask"]
RetData(k) == heap[ret.arrays[k].data]
RetMask(k) == heap[ret.arrays[k].mask]

EmptyHeap == [r \in Refs |-> <<>>]

Init ==
    /\ \E n \in 0..MaxLen, k \in {"i", "f"} :
         \E d \in SeqsOf(DataVals, n), m \in SeqsOf(BOOLEAN, n) :
            /\ heap = [EmptyHeap EXCEPT !["self.data"] = d, !["self.mask"] = m]
            /\ self = [data |-> "self.data", mask |-> "self.mask", kind |-> k,
                       data0 |-> d, mask0 |-> m]
    /\ other = NoOperand
    /\ op_name = ""
    /\ ret = NoRet
    /\ snap = NoSnap
    /\ arrow = NoArrow
    /\ pc = "idle"

\* The buffers a call's result lives in.  Every buffer _arith_method hands
\* to _maybe_mask_result is one it has just made (self._mask.copy(),
\* self._mask | omask, np.where, np.ones_like, op(...)); divmod's two arrays
\* are built over the same mask (lines 241-242).
Store(h, r) ==
    IF r.status # "ok" THEN h
    ELSE IF Len(r.arrays) = 1
    THEN [h EXCEPT !["ret1.data"] = r.arrays[1].data,
                   !["ret1.mask"] = r.arrays[1].mask,
                   !["ret2.data"] = <<>>]
    ELSE [h EXCEPT !["ret1.data"] = r.arrays[1].data,
                   !["ret1.mask"] = r.arrays[1].mask,
                   !["ret2.data"] = r.arrays[2].data]
StoredRet(r) ==
    [r EXCEPT !.arrays =
        [k \in 1..Len(r.arrays) |->
            [data |-> IF k = 1 THEN "ret1.data" ELSE "ret2.data",
             mask |-> "ret1.mask",
             kind |-> r.arrays[k].kind]]]

\* self <op> o, for any operand and operator
ArithCall ==
    /\ pc = "idle"
    /\ \E o \in Operands, op \in OpNames :
        LET r == ArithMethod(SelfData, SelfMask, self.kind, o, op)
            h == [heap EXCEPT !["other.data"] = o.data, !["other.mask"] = o.mask]
        IN  /\ other' = o
            /\ op_name' = op
            /\ snap' = [odata |-> o.data, omask |-> o.mask]
            /\ heap' = Store([h EXCEPT !["ret1.data"] = <<>>, !["ret1.mask"] = <<>>,
                                       !["ret2.data"] = <<>>], r)
            /\ ret' = StoredRet(r)
            /\ pc' = "called"
            /\ UNCHANGED <<self, arrow>>

\* One returned array over fresh buffers
StoreOne(data, mask, kind) ==
    /\ heap' = [heap EXCEPT !["ret1.data"] = data, !["ret1.mask"] = mask]
    /\ ret' = Returned(<<Array("ret1.data", "ret1.mask", kind)>>, FALSE)

Unary(name) ==
    /\ other' = NoOperand
    /\ op_name' = name
    /\ snap' = NoSnap
    /\ pc' = "called"
    /\ UNCHANGED <<self, arrow>>

\* lines 249-250: type(self)(-self._data, self._mask.copy())
NegData(data) == [i \in 1..Len(data) |-> Num(-(data[i][1]))]
Neg ==
    /\ pc = "idle"
    /\ StoreOne(NegData(SelfData), SelfMask, self.kind)
    /\ Unary("neg")

\* lines 252-253: self.copy(), a copy of both buffers
Pos ==
    /\ pc = "idle"
    /\ StoreOne(SelfData, SelfMask, self.kind)
    /\ Unary("pos")

\* lines 255-256: type(self)(abs(self._data), self._mask.copy())
AbsVal(x) == IF x < 0 THEN -x ELSE x
AbsData(data) == [i \in 1..Len(data) |-> Num(AbsVal(data[i][1]))]
Abs ==
    /\ pc = "idle"
    /\ StoreOne(AbsData(SelfData), SelfMask, self.kind)
    /\ Unary("abs")

\* np.round of an integral value: unchanged for decimals >= 0, and to the
\* nearest multiple of 10^-decimals (ties to the even multiple) below 0
RoundVal(x, decimals) ==
    IF decimals >= 0 THEN x
    ELSE LET q == IntPow(10, -decimals)
             r == x % q
             lo == x - r
         IN  IF 2 * r < q THEN lo
             ELSE IF 2 * r > q THEN lo + q
             ELSE IF (lo \div q) % 2 = 0 THEN lo ELSE lo + q
RoundData(data, decimals) ==
    [i \in 1..Len(data) |-> Num(RoundVal(data[i][1], decimals))]
\* lines 282-284, called with no extra arguments
Round ==
    /\ pc = "idle"
    /\ \E decimals \in -1..1 :
          StoreOne(RoundData(SelfData, decimals), SelfMask, self.kind)
    /\ Unary("round")

\* NumericArray.astype.  A target dtype is known by its family: "f" a numpy
\* floating dtype, "M" datetime64, "i" a numpy integer dtype, "b" numpy bool,
\* "ext" an ExtensionDtype.
Targets == {"f", "M", "i", "b", "ext"}

NoDefault == [given |-> FALSE, value |-> Zero]
Fill(v) == [given |-> TRUE, value |-> v]

\* mutant of NaValue: NaN whatever the target
NaValueAlwaysNaN(target) == Fill(NaN)
\* lines 157-166: na_value by the target's family
NaValue(target) ==
    IF target = "f" THEN Fill(NaN)
    ELSE IF target = "M" THEN Fill(NaT)
    ELSE NoDefault

HasNa(mask) == \E i \in 1..Len(mask) : mask[i]

\* ndarray.astype(dtype) of one integral value
CastVal(v, target) == IF target = "b" THEN (IF v = Zero THEN Zero ELSE One) ELSE v

\* self.to_numpy(dtype, na_value, copy): the buffer cast to the target,
\* every missing slot holding na_value; an error when a slot is missing and
\* there is no na_value
ToNumpy(data, mask, target, na_value) ==
    IF HasNa(mask) /\ ~na_value.given THEN Raised("UnsafeCastError", FALSE)
    ELSE Returned(<<[i \in 1..Len(data) |->
                        IF mask[i] THEN na_value.value ELSE CastVal(data[i], target)]>>,
                  FALSE)

\* to_numpy hands back self._data itself when nothing is missing, the dtype
\* is already the target's and copy is False
ToNumpyRef(mask, skind, target, copy) ==
    IF ~copy /\ ~HasNa(mask) /\ skind = target THEN "self.data" ELSE "ret1.data"

\* astype_nansafe(data, dtype, copy=False) on a buffer already of dtype
AstypeNansafe(data, target) == data

Astype ==
    /\ pc = "idle"
    /\ \E target \in Targets, copy \in BOOLEAN :
        /\ other' = Operand("dtype", target, 0, <<>>, <<>>)
        /\ IF target = "ext"
           THEN \* line 155: super().astype(dtype, copy=copy)
                /\ ret' = [status |-> "delegated", arrays |-> <<>>, evaluated |-> FALSE]
                /\ heap' = heap
           ELSE LET r == ToNumpy(SelfData, SelfMask, target, NaValue(target))
                    ref == ToNumpyRef(SelfMask, self.kind, target, copy)
                IN  IF r.status # "ok"
                    THEN ret' = r /\ heap' = heap
                    ELSE /\ heap' = [heap EXCEPT ![ref] =
                                        IF self.kind = "f"
                                        THEN AstypeNansafe(r.arrays[1], target)
                                        ELSE r.arrays[1]]
                         /\ ret' = Returned(<<Array(ref, "none", target)>>, FALSE)
    /\ op_name' = "astype"
    /\ snap' = NoSnap
    /\ pc' = "called"
    /\ UNCHANGED <<self, arrow>>

\* The caller writes into a buffer of a returned array
Mutate ==
    /\ pc = "called"
    /\ ret.status = "ok"
    /\ \E k \in 1..Len(ret.arrays) :
          \/ \E i \in 1..Len(RetData(k)) :
                heap' = [heap EXCEPT ![ret.arrays[k].data][i] =
                                        IF @ = Zero THEN One ELSE Zero]
          \/ \E i \in 1..Len(RetMask(k)) :
                heap' = [heap EXCEPT ![ret.arrays[k].mask][i] = ~@]
    /\ pc' = "mutated"
    /\ UNCHANGED <<self, other, op_name, ret, snap, arrow>>

\* NumericDtype.__from_arrow__.  self.kind is the dtype's kind; arrow is a
\* pyarrow.Array (chunked FALSE, chunks[1] the array itself) or a
\* pyarrow.ChunkedArray, of a pyarrow type.
ArrowTypes == {"int64", "int32", "uint64", "double", "string"}
\* pandas_dtype(array.type.to_pandas_dtype()).kind
ArrowKind(type) ==
    CASE type \in {"int64", "int32"} -> "i"
      [] type = "uint64" -> "u"
      [] type = "double" -> "f"
      [] OTHER -> "O"
\* pyarrow.from_numpy_dtype(self.type)
PyarrowType(kind) == IF kind = "f" THEN "double" ELSE "int64"

\* A slot of a pyarrow array: a valid 1, a valid 2 or a null over a zero
ArrowSlots == {<<One, TRUE>>, <<Num(2), TRUE>>, <<Zero, FALSE>>}
ArrowChunk(slots) ==
    [values |-> [i \in 1..Len(slots) |-> slots[i][1]],
     valid |-> [i \in 1..Len(slots) |-> slots[i][2]]]
ArrowChunks == {ArrowChunk(sl) : sl \in SeqsUpTo(ArrowSlots, MaxLen)}

\* pyarrow_array_to_numpy_and_mask(arr, dtype): the values buffer, and the
\* validity bitmap as booleans (True: valid)
PyarrowArrayToNumpyAndMask(chunk) == [data |-> chunk.values, mask |-> chunk.valid]

\* mutant of ChunkArray: the validity is not inverted
ChunkArrayValidAsMask(chunk, kind) ==
    LET dm == PyarrowArrayToNumpyAndMask(chunk)
    IN  Array(dm.data, dm.mask, kind)
\* lines 86-87: array_class(data.copy(), ~mask, copy=False)
ChunkArray(chunk, kind) ==
    LET dm == PyarrowArrayToNumpyAndMask(chunk)
    IN  Array(dm.data, [i \in 1..Len(dm.mask) |-> ~dm.mask[i]], kind)

\* array_class._concat_same_type(results): the arrays end to end, in order
RECURSIVE ConcatSameType(_, _)
ConcatSameType(results, kind) ==
    IF results = <<>> THEN Array(<<>>, <<>>, kind)
    ELSE LET rest == ConcatSameType(Tail(results), kind)
         IN  Array(Head(results).data \o rest.data,
                   Head(results).mask \o rest.mask, kind)

\* lines 62-98
FromArrowResult(kind, a) ==
    IF a.type # PyarrowType(kind) /\ ArrowKind(a.type) \notin {"i", "u", "f"}
    THEN Raised("TypeError", FALSE)
    ELSE
    \* array.cast(pyarrow_type) keeps the (integral) values and the validity
    LET chunks == IF ~a.chunked THEN <<a.chunks[1]>> ELSE a.chunks
        results == [k \in 1..Len(chunks) |-> ChunkArray(chunks[k], kind)]
    IN  IF Len(results) = 0 THEN Returned(<<Array(<<>>, <<>>, kind)>>, FALSE)
        ELSE IF Len(results) = 1 THEN Returned(<<results[1]>>, FALSE)
        ELSE Returned(<<ConcatSameType(results, kind)>>, FALSE)

FromArrow ==
    /\ pc = "idle"
    /\ LET r == FromArrowResult(self.kind, arrow)
       IN  /\ heap' = Store(heap, r)
           /\ ret' = StoredRet(r)
    /\ op_name' = "from_arrow"
    /\ pc' = "called"
    /\ UNCHANGED <<self, other, snap, arrow>>

InitArrow ==
    /\ heap = EmptyHeap
    /\ \E k \in {"i", "f"} :
          self = [data |-> "self.data", mask |-> "self.mask", kind |-> k,
                  data0 |-> <<>>, mask0 |-> <<>>]
    /\ \E t \in ArrowTypes :
          \/ \E c \in ArrowChunks :
                arrow = [type |-> t, chunked |-> FALSE, chunks |-> <<c>>]
          \/ \E cs \in SeqsUpTo(ArrowChunks, MaxChunks) :
                arrow = [type |-> t, chunked |-> TRUE, chunks |-> cs]
    /\ other = NoOperand
    /\ op_name = ""
    /\ ret = NoRet
    /\ snap = NoSnap
    /\ pc = "idle"

Next == ArithCall \/ Neg \/ Pos \/ Abs \/ Round \/ Astype

Spec == Init /\ [][Next]_vars

NextAlias == ArithCall \/ Neg \/ Pos \/ Abs \/ Round \/ Mutate

SpecAlias == Init /\ [][NextAlias]_vars

NextArrow == FromArrow

SpecArrow == InitArrow /\ [][NextArrow]_vars

---------------------------------------------------------------------------
\* Claims about _arith_method

Binary == pc = "called" /\ op_name \in OpNames
N == Len(self.data0)
\* the other operand's value and missingness at slot i
OVal(i) == At(other.data, i)
OMissing(i) == other.tag = "masked" /\ At(other.mask, i)
\* a masked or native operand of self's length, or a numeric scalar
Aligned ==
    \/ other.tag \in {"masked", "native"} /\ Len(other.data) = N
    \/ other.tag = "scalar"

\* C1 as stated: with NA as the other operand, every slot of every returned
\* array's mask is missing.
C1_AllMissing ==
    (Binary /\ other.tag = "NA" /\ ret.status = "ok") =>
        \A k \in 1..Len(ret.arrays) : RetMask(k) = AllTrue(N)

\* C1, amended: with NA as the other operand, a slot of a returned array's
\* mask is missing unless the operator is pow and self holds a present 1
\* there, or the operator is rpow and self holds a present 0 there; those
\* slots are not missing.
C1_AllMissingButIdentity ==
    (Binary /\ other.tag = "NA" /\ ret.status = "ok") =>
        \A k \in 1..Len(ret.arrays) :
            /\ Len(RetMask(k)) = N
            /\ \A i \in 1..N :
                 RetMask(k)[i] =
                    ~ \/ op_name = "pow" /\ SelfData[i] = One /\ ~SelfMask[i]
                      \/ op_name = "rpow" /\ SelfData[i] = Zero /\ ~SelfMask[i]

\* A ** NA where A holds a present 1 and a present 2: the first slot is not
\* missing, the second is.
C1_Witness ==
    /\ Binary /\ other.tag = "NA" /\ op_name = "pow" /\ ret.status = "ok"
    /\ N = 2
    /\ SelfData = <<One, Num(2)>> /\ SelfMask = <<FALSE, FALSE>>
    /\ RetMask(1) = <<FALSE, TRUE>>

\* C2: for pow with an aligned masked, native or scalar operand, the result
\* is not missing at i where self holds a present 1 or the other operand a
\* present 0, and elsewhere is missing exactly when either operand is.
C2_PowMask ==
    (Binary /\ op_name = "pow" /\ Aligned /\ ret.status = "ok") =>
        /\ Len(RetMask(1)) = N
        /\ \A i \in 1..N :
             RetMask(1)[i] =
                IF \/ SelfData[i] = One /\ ~SelfMask[i]
                   \/ OVal(i) = Zero /\ ~OMissing(i)
                THEN FALSE
                ELSE SelfMask[i] \/ OMissing(i)

\* A present 1 raised to a missing exponent, and a missing base raised to a
\* present 0, are both not missing.
C2_Witness ==
    /\ Binary /\ op_name = "pow" /\ other.tag = "masked" /\ ret.status = "ok"
    /\ SelfData = <<One, Num(2)>> /\ SelfMask = <<FALSE, TRUE>>
    /\ other.data = <<Num(2), Zero>> /\ other.mask = <<TRUE, FALSE>>
    /\ RetMask(1) = <<FALSE, FALSE>>

\* C3: for every operator but pow and rpow and an aligned masked, native or
\* scalar operand, the result mask is self.mask OR other.mask (self.mask
\* alone when the operand has no mask), slot for slot.
C3_PlainMask ==
    (Binary /\ op_name \notin {"pow", "rpow"} /\ Aligned /\ ret.status = "ok") =>
        \A k \in 1..Len(ret.arrays) :
            RetMask(k) = [i \in 1..N |-> SelfMask[i] \/ OMissing(i)]

\* A product whose second operand is missing at the first slot only.
C3_Witness ==
    /\ Binary /\ op_name = "mul" /\ other.tag = "masked" /\ ret.status = "ok"
    /\ SelfMask = <<FALSE, FALSE>> /\ other.mask = <<TRUE, FALSE>>
    /\ SelfData = <<Zero, One>>
    /\ RetMask(1) = <<TRUE, FALSE>>

\* C4 as stated: an array operand (masked or native, 1-d) of another length
\* than self makes every operator raise ValueError and return nothing.
C4_LengthMismatchRaises ==
    (Binary /\ other.tag \in {"masked", "native"} /\ other.ndim = 1
        /\ Len(other.data) # N) =>
        ret.status = "ValueError" /\ ret.arrays = <<>>

\* C5: divmod with a masked operand returns two arrays over one combined
\* mask, self.mask OR other.mask, which agree in data, mask and kind with
\* what floordiv and mod return for the same operands.
C5_Divmod ==
    (Binary /\ op_name = "divmod" /\ other.tag = "masked") =>
        LET q == ArithMethod(SelfData, SelfMask, self.kind, other, "floordiv")
            r == ArithMethod(SelfData, SelfMask, self.kind, other, "mod")
        IN  /\ ret.status = q.status /\ ret.status = r.status
            /\ ret.status = "ok" =>
                /\ Len(ret.arrays) = 2
                /\ ret.arrays[1].mask = ret.arrays[2].mask
                /\ RetMask(1) = NpOr(SelfMask, other.mask)
                /\ RetData(1) = q.arrays[1].data /\ RetMask(1) = q.arrays[1].mask
                /\ ret.arrays[1].kind = q.arrays[1].kind
                /\ RetData(2) = r.arrays[1].data /\ RetMask(2) = r.arrays[1].mask
                /\ ret.arrays[2].kind = r.arrays[1].kind

\* divmod([2, 1], [2, missing]): quotient 1 and remainder 0 at the first
\* slot, the second missing in both.
C5_Witness ==
    /\ Binary /\ op_name = "divmod" /\ other.tag = "masked" /\ ret.status = "ok"
    /\ self.kind = "i" /\ other.kind = "i"
    /\ SelfData = <<Num(2), One>> /\ SelfMask = <<FALSE, FALSE>>
    /\ other.data = <<Num(2), Num(2)>> /\ other.mask = <<FALSE, TRUE>>
    /\ RetData(1) = <<One, Zero>> /\ RetData(2) = <<Zero, One>>
    /\ RetMask(1) = <<FALSE, TRUE>>

\* C8: for rpow with an aligned operand that is not NA, the result is not
\* missing at i exactly when both operands are present there, or the other
\* operand holds a present 1, or self holds a present 0.
C8_RpowMask ==
    (Binary /\ op_name = "rpow" /\ Aligned /\ ret.status = "ok") =>
        /\ Len(RetMask(1)) = N
        /\ \A i \in 1..N :
             ~RetMask(1)[i] <=>
                \/ ~SelfMask[i] /\ ~OMissing(i)
                \/ OVal(i) = One /\ ~OMissing(i)
                \/ SelfData[i] = Zero /\ ~SelfMask[i]

\* other ** self: missing ** 0 is not missing; 2 ** missing is.
C8_Witness ==
    /\ Binary /\ op_name = "rpow" /\ other.tag = "masked" /\ ret.status = "ok"
    /\ SelfData = <<Zero, One>> /\ SelfMask = <<FALSE, TRUE>>
    /\ other.data = <<Zero, Num(2)>> /\ other.mask = <<TRUE, FALSE>>
    /\ RetMask(1) = <<FALSE, TRUE>>

\* C10: with NA as the other operand the operator is never evaluated; a
\* returned array's data is all ones of self's length, floating when the
\* operator is truediv or rtruediv and self is not floating, and of self's
\* kind otherwise.
C10_Placeholder ==
    (Binary /\ other.tag = "NA") =>
        /\ ~ret.evaluated
        /\ ret.status = "ok" =>
            /\ Len(ret.arrays) = 1
            /\ RetData(1) = Ones(N)
            /\ ret.arrays[1].kind =
                    IF op_name \in {"truediv", "rtruediv"} /\ self.kind # "f"
                    THEN "f" ELSE self.kind

\* An integer array divided by NA: two ones, reported floating.
C10_Witness ==
    /\ Binary /\ other.tag = "NA" /\ op_name = "rtruediv" /\ ret.status = "ok"
    /\ self.kind = "i" /\ N = 2
    /\ RetData(1) = <<One, One>> /\ ret.arrays[1].kind = "f"

---------------------------------------------------------------------------
\* Claims about aliasing, astype and __from_arrow__

\* C9 as stated: no arithmetic or unary call, and no later write into what
\* it returned, changes the operands' buffers; +A equals A in data and mask
\* and shares no buffer with it; every returned array has data and mask of
\* self's length.
C9_NoMutationNoAlias ==
    /\ SelfData = self.data0 /\ SelfMask = self.mask0
    /\ heap["other.data"] = snap.odata /\ heap["other.mask"] = snap.omask
    /\ (op_name = "pos" /\ pc = "called") =>
            RetData(1) = SelfData /\ RetMask(1) = SelfMask
    /\ ret.status = "ok" =>
        \A k \in 1..Len(ret.arrays) :
            /\ {ret.arrays[k].data, ret.arrays[k].mask}
                    \cap {"self.data", "self.mask", "other.data", "other.mask"} = {}
            /\ Len(RetData(k)) = N /\ Len(RetMask(k)) = N

\* The part of C9 that does hold: the operands' buffers are never written
\* and never shared with a returned array, +A equals A, a returned array's
\* data and mask have one length, and that length is self's unless the
\* other operand is a NumericArray of another length.
C9_FrameAligned ==
    /\ SelfData = self.data0 /\ SelfMask = self.mask0
    /\ heap["other.data"] = snap.odata /\ heap["other.mask"] = snap.omask
    /\ (op_name = "pos" /\ pc = "called") =>
            RetData(1) = SelfData /\ RetMask(1) = SelfMask
    /\ ret.status = "ok" =>
        \A k \in 1..Len(ret.arrays) :
            /\ {ret.arrays[k].data, ret.arrays[k].mask}
                    \cap {"self.data", "self.mask", "other.data", "other.mask"} = {}
            /\ Len(RetData(k)) = Len(RetMask(k))
            /\ (other.tag # "masked" \/ Len(other.data) = N) => Len(RetData(k)) = N

\* C6: astype to a numpy dtype fills missing slots by the target's family:
\* NaN for floating, NaT for datetime64, nothing otherwise.  With a missing
\* slot and nothing to fill it the cast raises and returns no buffer; to a
\* floating target it succeeds, missing slots reading NaN and present slots
\* their value; with no missing slot it never raises.
C6_AstypeFill ==
    (pc = "called" /\ op_name = "astype" /\ other.kind # "ext") =>
        /\ (HasNa(SelfMask) /\ other.kind \notin {"f", "M"}) =>
                ret.status # "ok" /\ ret.arrays = <<>>
        /\ (~HasNa(SelfMask) \/ other.kind \in {"f", "M"}) =>
                /\ ret.status = "ok"
                /\ Len(RetData(1)) = N
                /\ \A i \in 1..N : SelfMask[i] =>
                        RetData(1)[i] = IF other.kind = "f" THEN NaN ELSE NaT
        /\ other.kind = "f" =>
                \A i \in 1..N : ~SelfMask[i] => RetData(1)[i] = SelfData[i]

\* [1, missing] cast to a floating dtype reads [1, NaN].
C6_Witness ==
    /\ pc = "called" /\ op_name = "astype" /\ other.kind = "f"
    /\ SelfData = <<One, Num(2)>> /\ SelfMask = <<FALSE, TRUE>>
    /\ ret.status = "ok" /\ RetData(1) = <<One, NaN>>

\* the slots of the chunks, flattened in chunk order
RECURSIVE FlatSlots(_)
FlatSlots(chunks) ==
    IF chunks = <<>> THEN <<>>
    ELSE [i \in 1..Len(chunks[1].values) |->
            <<chunks[1].values[i], chunks[1].valid[i]>>] \o FlatSlots(Tail(chunks))

\* C7: __from_arrow__ returns one array of the dtype's kind whose slots are
\* the chunks' slots in chunk order, data as given and mask true exactly at
\* the invalid slots; no chunks give an empty array.
C7_FromArrow ==
    (pc = "called" /\ op_name = "from_arrow") =>
        /\ ret.status = "ok" <=> ArrowKind(arrow.type) \in {"i", "u", "f"}
        /\ ret.status = "ok" =>
            LET flat == FlatSlots(arrow.chunks)
            IN  /\ Len(ret.arrays) = 1
                /\ ret.arrays[1].kind = self.kind
                /\ Len(RetData(1)) = Len(flat) /\ Len(RetMask(1)) = Len(flat)
                /\ \A i \in 1..Len(flat) :
                     RetData(1)[i] = flat[i][1] /\ RetMask(1)[i] = ~flat[i][2]

\* Chunks [1, 2] and [null, 2] give [1, 2, missing, 2].
C7_Witness ==
    /\ pc = "called" /\ op_name = "from_arrow" /\ ret.status = "ok"
    /\ arrow.chunked /\ Len(arrow.chunks) = 2
    /\ arrow.chunks[1].values = <<One, Num(2)>> /\ arrow.chunks[1].valid = <<TRUE, TRUE>>
    /\ arrow.chunks[2].values = <<Zero, Num(2)>> /\ arrow.chunks[2].valid = <<FALSE, TRUE>>
    /\ RetData(1) = <<One, Num(2), Zero, Num(2)>>
    /\ RetMask(1) = <<FALSE, FALSE, TRUE, FALSE>>

====
